---- MODULE Spec2Model ----
(***************************************************************************)
(* Skull King rules engine (cards.py, game_engine.py) and the driver that  *)
(* sequences it (gui_pygame.py), as a state machine.                       *)
(*                                                                         *)
(* Python values are represented as follows: a Card is a record            *)
(* [card_type, suit, value]; the value None of a special card is 0 (Number *)
(* values are 1..13); the suit None is the string "None"; a Player is its  *)
(* index in the game's player list; a dict is a function whose DOMAIN is   *)
(* the set of keys present; the state None and the trick None are the      *)
(* records NoState and NoTrick.                                            *)
(***************************************************************************)
EXTENDS Integers, Sequences, FiniteSets, TLC

\* ---------------------------------------------------------------- bounds
NumPlayers == 2
MaxRound == 2
MaxStarts == 2
MaxScorings == 1

Players == 1..NumPlayers

\* ------------------------------------------------------------ card model
RealSuits == <<"Red", "Yellow", "Blue", "Green">>

SpecialTypes == {"Escape", "Pirate", "Mermaid", "Skull King", "Tigress"}

NumberCard(s, v) == [card_type |-> "Number", suit |-> s, value |-> v]

SpecialCard(t) == [card_type |-> t, suit |-> "Special", value |-> 0]

JollyRogerCard(s, v) == [card_type |-> "Jolly Roger", suit |-> s, value |-> v]

\* special_hierarchy with the Tigress ranked below the Skull King
special_hierarchy_TigressRanked(t) ==
  CASE t = "Skull King" -> 3
    [] t = "Mermaid" -> 4
    [] t = "Pirate" -> 5
    [] t = "Tigress" -> 2
    [] OTHER -> 0

\* special_hierarchy with the Skull King ranked above Mermaid and Pirate
special_hierarchy_KingOnTop(t) ==
  CASE t = "Skull King" -> 6
    [] t = "Mermaid" -> 4
    [] t = "Pirate" -> 5
    [] OTHER -> 0

\* special_hierarchy.get(card_type): 0 stands for "not in the map"
special_hierarchy(t) ==
  CASE t = "Skull King" -> 3
    [] t = "Mermaid" -> 4
    [] t = "Pirate" -> 5
    [] OTHER -> 0

\* Card.beats whose last fallback answers True: two Number cards of
\* different suits, neither of the led suit, each beat the other
Beats_OffSuitWins(self, other, led_suit, trump_suit) ==
  LET self_special == special_hierarchy(self.card_type)
      other_special == special_hierarchy(other.card_type)
  IN  IF self.card_type = "Escape" THEN FALSE
      ELSE IF other.card_type = "Escape" THEN TRUE
      ELSE IF self_special # 0 /\ other_special # 0 THEN self_special > other_special
      ELSE IF self_special # 0 THEN TRUE
      ELSE IF other_special # 0 THEN FALSE
      ELSE IF self.card_type = "Number" /\ other.card_type = "Number"
           THEN IF self.suit = other.suit THEN self.value > other.value
                ELSE IF self.suit = led_suit THEN TRUE
                ELSE IF other.suit = led_suit THEN FALSE
                ELSE TRUE
      ELSE FALSE

\* Card.beats that never looks at the trump suit
Beats_TrumpIgnored(self, other, led_suit, trump_suit) ==
  LET self_special == special_hierarchy(self.card_type)
      other_special == special_hierarchy(other.card_type)
  IN  IF self.card_type = "Escape" THEN FALSE
      ELSE IF other.card_type = "Escape" THEN TRUE
      ELSE IF self_special # 0 /\ other_special # 0 THEN self_special > other_special
      ELSE IF self_special # 0 THEN TRUE
      ELSE IF other_special # 0 THEN FALSE
      ELSE IF self.card_type = "Number" /\ other.card_type = "Number"
           THEN IF self.suit = other.suit THEN self.value > other.value
                ELSE IF self.suit = led_suit THEN TRUE
                ELSE IF other.suit = led_suit THEN FALSE
                ELSE FALSE
      ELSE FALSE

\* Card.beats that lets the equal value win among Number cards of one suit
Beats_TiesWin(self, other, led_suit, trump_suit) ==
  LET self_special == special_hierarchy(self.card_type)
      other_special == special_hierarchy(other.card_type)
      self_is_trump == self.suit = trump_suit
      other_is_trump == other.suit = trump_suit
  IN  IF self.card_type = "Escape" THEN FALSE
      ELSE IF other.card_type = "Escape" THEN TRUE
      ELSE IF self_special # 0 /\ other_special # 0 THEN self_special > other_special
      ELSE IF self_special # 0 THEN TRUE
      ELSE IF other_special # 0 THEN FALSE
      ELSE IF self.card_type = "Number" /\ other.card_type = "Number"
           THEN IF trump_suit # "None" /\ self_is_trump /\ ~other_is_trump THEN TRUE
                ELSE IF trump_suit # "None" /\ other_is_trump /\ ~self_is_trump THEN FALSE
                ELSE IF trump_suit # "None" /\ self_is_trump /\ other_is_trump
                     THEN self.value >= other.value
                ELSE IF self.suit = other.suit THEN self.value >= other.value
                ELSE IF self.suit = led_suit THEN TRUE
                ELSE IF other.suit = led_suit THEN FALSE
                ELSE FALSE
      ELSE FALSE

\* Card.beats(self, other, led_suit, trump_suit)
Beats(self, other, led_suit, trump_suit) ==
  LET self_special == special_hierarchy(self.card_type)
      other_special == special_hierarchy(other.card_type)
      self_is_trump == self.suit = trump_suit
      other_is_trump == other.suit = trump_suit
  IN  IF self.card_type = "Escape" THEN FALSE
      ELSE IF other.card_type = "Escape" THEN TRUE
      ELSE IF self_special # 0 /\ other_special # 0 THEN self_special > other_special
      ELSE IF self_special # 0 THEN TRUE
      ELSE IF other_special # 0 THEN FALSE
      ELSE IF self.card_type = "Number" /\ other.card_type = "Number"
           THEN IF trump_suit # "None" /\ self_is_trump /\ ~other_is_trump THEN TRUE
                ELSE IF trump_suit # "None" /\ other_is_trump /\ ~self_is_trump THEN FALSE
                ELSE IF trump_suit # "None" /\ self_is_trump /\ other_is_trump
                     THEN self.value > other.value
                ELSE IF self.suit = other.suit THEN self.value > other.value
                ELSE IF self.suit = led_suit THEN TRUE
                ELSE IF other.suit = led_suit THEN FALSE
                ELSE FALSE
      ELSE FALSE

\* ------------------------------------------------------------------ deck
\* Deck._create_deck with a sixth Escape
CreateDeck_SixEscapes ==
  [i \in 1..52 |-> NumberCard(RealSuits[((i - 1) \div 13) + 1], ((i - 1) % 13) + 1)]
  \o [i \in 1..6 |-> SpecialCard("Escape")]
  \o [i \in 1..2 |-> SpecialCard("Mermaid")]
  \o [i \in 1..2 |-> SpecialCard("Pirate")]
  \o <<SpecialCard("Skull King")>>
  \o <<SpecialCard("Tigress")>>

\* Deck._create_deck: 13 values x 4 suits, 5 Escape, 2 Mermaid, 2 Pirate,
\* 1 Skull King, 1 Tigress, in this order
CreateDeck ==
  [i \in 1..52 |-> NumberCard(RealSuits[((i - 1) \div 13) + 1], ((i - 1) % 13) + 1)]
  \o [i \in 1..5 |-> SpecialCard("Escape")]
  \o [i \in 1..2 |-> SpecialCard("Mermaid")]
  \o [i \in 1..2 |-> SpecialCard("Pirate")]
  \o <<SpecialCard("Skull King")>>
  \o <<SpecialCard("Tigress")>>

RECURSIVE RestOf(_, _, _)
\* the cards of `cards` from position i on whose position is not in `taken`
RestOf(cards, taken, i) ==
  IF i > Len(cards) THEN <<>>
  ELSE IF i \in taken THEN RestOf(cards, taken, i + 1)
       ELSE <<cards[i]>> \o RestOf(cards, taken, i + 1)

\* the permutation of `cards` that brings the positions `top` to the front
BringToTop(cards, top) ==
  [k \in 1..Len(top) |-> cards[top[k]]]
  \o RestOf(cards, {top[k] : k \in 1..Len(top)}, 1)

\* positions of the fresh deck: Red v = v, Blue v = 26 + v, Escape 53..57,
\* Mermaid 58..59, Pirate 60..61, Skull King 62, Tigress 63
ShuffleTops ==
  { <<62, 58, 5, 60>>,
    <<5, 29, 7, 53>>,
    <<53, 54, 60, 61>> }

\* Deck.shuffle: random.shuffle leaves some permutation of the cards; the
\* outcomes explored are the permutations BringToTop(cards, top)
ShuffleOutcomes(cards) == { BringToTop(cards, top) : top \in ShuffleTops }

\* Deck() followed by shuffle(), as start_round does
FreshShuffles == ShuffleOutcomes(CreateDeck)

\* Deck.deal that hands out the last num_cards cards instead of the first
Deal_FromTheEnd(cards, num_cards) ==
  IF num_cards > Len(cards)
  THEN [ok |-> FALSE, dealt |-> <<>>, cards |-> cards]
  ELSE [ok |-> TRUE, dealt |-> SubSeq(cards, Len(cards) - num_cards + 1, Len(cards)),
        cards |-> SubSeq(cards, 1, Len(cards) - num_cards)]

\* Deck.deal without its length test: the slices hand out what is left
Deal_TruncatesOnShortage(cards, num_cards) ==
  IF num_cards > Len(cards)
  THEN [ok |-> FALSE, dealt |-> cards, cards |-> <<>>]
  ELSE [ok |-> TRUE, dealt |-> SubSeq(cards, 1, num_cards),
        cards |-> SubSeq(cards, num_cards + 1, Len(cards))]

\* Deck.deal(num_cards) on the card list `cards`
Deal(cards, num_cards) ==
  IF num_cards > Len(cards)
  THEN [ok |-> FALSE, dealt |-> <<>>, cards |-> cards]
  ELSE [ok |-> TRUE, dealt |-> SubSeq(cards, 1, num_cards),
        cards |-> SubSeq(cards, num_cards + 1, Len(cards))]

\* ----------------------------------------------------------------- trick
NoTrick == [none |-> TRUE]

\* Trick.__init__
Trick(round_num, trick_num, trump_suit) ==
  [round_num |-> round_num, trick_num |-> trick_num, trump_suit |-> trump_suit,
   cards_played |-> <<>>, led_suit |-> "None", winner |-> 0]

\* Trick.play_card that sets the led suit at every play
TrickPlayCard_EveryPlayLeads(t, player, card) ==
  [t EXCEPT
     !.led_suit = IF card.card_type = "Number" THEN card.suit ELSE "Special",
     !.cards_played = Append(@, [player |-> player, card |-> card])]

\* Trick.play_card
TrickPlayCard(t, player, card) ==
  [t EXCEPT
     !.led_suit = IF Len(t.cards_played) = 0
                  THEN (IF card.card_type = "Number" THEN card.suit ELSE "Special")
                  ELSE @,
     !.cards_played = Append(@, [player |-> player, card |-> card])]

RECURSIVE WinnerFold_AgainstFirst(_, _, _)
\* the loop of determine_winner comparing each card with the first play
\* instead of the candidate
WinnerFold_AgainstFirst(t, w, i) ==
  IF i > Len(t.cards_played) THEN w
  ELSE IF Beats(t.cards_played[i].card, t.cards_played[1].card, t.led_suit, t.trump_suit)
       THEN WinnerFold_AgainstFirst(t, i, i + 1)
       ELSE WinnerFold_AgainstFirst(t, w, i + 1)

RECURSIVE WinnerFold_StopsAtFirstBeat(_, _, _)
\* the loop of determine_winner ending at the first card that beats the
\* candidate
WinnerFold_StopsAtFirstBeat(t, w, i) ==
  IF i > Len(t.cards_played) THEN w
  ELSE IF Beats(t.cards_played[i].card, t.cards_played[w].card, t.led_suit, t.trump_suit)
       THEN i
       ELSE WinnerFold_StopsAtFirstBeat(t, w, i + 1)

RECURSIVE WinnerFold_LaterWinsTies(_, _, _)
\* the loop of determine_winner replacing the candidate by every later card
\* the candidate does not beat
WinnerFold_LaterWinsTies(t, w, i) ==
  IF i > Len(t.cards_played) THEN w
  ELSE IF ~Beats(t.cards_played[w].card, t.cards_played[i].card, t.led_suit, t.trump_suit)
       THEN WinnerFold_LaterWinsTies(t, i, i + 1)
       ELSE WinnerFold_LaterWinsTies(t, w, i + 1)

RECURSIVE WinnerFold(_, _, _)
\* the loop of Trick.determine_winner: w is the index of the candidate play,
\* i the index of the play compared next
WinnerFold(t, w, i) ==
  IF i > Len(t.cards_played) THEN w
  ELSE IF Beats(t.cards_played[i].card, t.cards_played[w].card, t.led_suit, t.trump_suit)
       THEN WinnerFold(t, i, i + 1)
       ELSE WinnerFold(t, w, i + 1)

\* Trick.determine_winner: the winning player, 0 for None
DetermineWinner(t) ==
  IF Len(t.cards_played) = 0 THEN 0
  ELSE t.cards_played[WinnerFold(t, 1, 2)].player

\* ------------------------------------------------------------ game state
NoState == [none |-> TRUE]

EmptyDict == [p \in {} |-> 0]

\* GameState.__init__
GameState(round_num) ==
  [round_num |-> round_num, bids |-> EmptyDict, tricks_won |-> EmptyDict,
   hands |-> EmptyDict, current_trick |-> NoTrick, tricks |-> <<>>,
   trump_suit |-> "None", scores |-> [p \in Players |-> 0]]

Follows(c, led_suit) == c.card_type = "Number" /\ c.suit = led_suit

\* GameState.get_legal_cards that also lets the hand's special cards through
\* when the suit must be followed
GetLegalCards_SpecialsFollow(st, player) ==
  LET hand == st.hands[player]
      led == IF st.current_trick = NoTrick THEN "None" ELSE st.current_trick.led_suit
      ok(c) == Follows(c, led) \/ c.card_type \in SpecialTypes
  IN  IF st.current_trick = NoTrick THEN hand
      ELSE IF Len(st.current_trick.cards_played) = 0 THEN hand
      ELSE IF led # "None" /\ led # "Special"
              /\ \E i \in 1..Len(hand) : Follows(hand[i], led)
           THEN SelectSeq(hand, ok)
      ELSE hand

\* GameState.get_legal_cards without the test that a following card exists
GetLegalCards_NoFallback(st, player) ==
  LET hand == st.hands[player]
      led == IF st.current_trick = NoTrick THEN "None" ELSE st.current_trick.led_suit
      ok(c) == Follows(c, led)
  IN  IF st.current_trick = NoTrick THEN hand
      ELSE IF Len(st.current_trick.cards_played) = 0 THEN hand
      ELSE IF led # "None" /\ led # "Special" THEN SelectSeq(hand, ok)
      ELSE hand

\* GameState.get_legal_cards
GetLegalCards(st, player) ==
  LET hand == st.hands[player]
      led == IF st.current_trick = NoTrick THEN "None" ELSE st.current_trick.led_suit
      ok(c) == Follows(c, led)
      following_cards == SelectSeq(hand, ok)
  IN  IF st.current_trick = NoTrick THEN hand
      ELSE IF Len(st.current_trick.cards_played) = 0 THEN hand
      ELSE IF led # "None" /\ led # "Special" /\ Len(following_cards) > 0
           THEN following_cards
      ELSE hand

InSeq(x, s) == \E i \in 1..Len(s) : s[i] = x

\* list.remove that takes out every element equal to x
RemoveFirst_RemovesAll(s, x) == SelectSeq(s, LAMBDA y : y # x)

\* list.remove(x): drops the first element equal to x
RemoveFirst(s, x) ==
  LET i == CHOOSE k \in 1..Len(s) : s[k] = x /\ \A j \in 1..(k - 1) : s[j] # x
  IN  SubSeq(s, 1, i - 1) \o SubSeq(s, i + 1, Len(s))

\* ---------------------------------------------------------------- engine
VARIABLES deck, state, cumulative_scores, current_round, last, budget,
          start_scores, buttons, pc, probe

\* deck, state, cumulative_scores, current_round: the fields of SkullKingGame
\* last: the operation called last, its error ("" for success) and return value
\* budget: how many start_round / scoring calls have been made (bounds the run)
\* start_scores: history, the cumulative scores when the round was started
\* buttons, pc: the driver's button flags and its position in auto_play_round
\* probe: the inputs and result of the pure function under test
vars == <<deck, state, cumulative_scores, current_round, last, budget,
          start_scores, buttons, pc, probe>>

Result(op, err, ret) == [op |-> op, err |-> err, ret |-> ret]

RECURSIVE DealHandsAmong(_, _, _, _, _)
\* the dealing loop of start_round from player p on, in a game of
\* player_count players: stops at the first deal that fails
DealHandsAmong(cards, num_cards, p, hands, player_count) ==
  IF p > player_count THEN [ok |-> TRUE, cards |-> cards, hands |-> hands]
  ELSE LET d == Deal(cards, num_cards)
       IN  IF ~d.ok THEN [ok |-> FALSE, cards |-> cards, hands |-> hands]
           ELSE DealHandsAmong(d.cards, num_cards, p + 1,
                               [q \in 1..p |-> IF q = p THEN d.dealt ELSE hands[q]],
                               player_count)

\* the dealing loop of start_round in the game of NumPlayers players
DealHands(cards, num_cards, p, hands) ==
  DealHandsAmong(cards, num_cards, p, hands, NumPlayers)

\* SkullKingGame.start_round that leaves the new round's scores at zero
StartRoundResult_ScoresFromZero(shuffled, round_num, cum, old_state) ==
  LET d == DealHands(shuffled, round_num, 1, EmptyDict)
  IN  IF d.ok
      THEN [deck |-> d.cards,
            state |-> [GameState(round_num) EXCEPT
                         !.hands = d.hands,
                         !.tricks_won = [p \in Players |-> 0]],
            err |-> ""]
      ELSE [deck |-> d.cards, state |-> old_state, err |-> "InsufficientCards"]

\* SkullKingGame.start_round on the shuffled fresh deck `shuffled`
StartRoundResult(shuffled, round_num, cum, old_state) ==
  LET d == DealHands(shuffled, round_num, 1, EmptyDict)
  IN  IF d.ok
      THEN [deck |-> d.cards,
            state |-> [GameState(round_num) EXCEPT
                         !.scores = cum,
                         !.hands = d.hands,
                         !.tricks_won = [p \in Players |-> 0]],
            err |-> ""]
      ELSE [deck |-> d.cards, state |-> old_state, err |-> "InsufficientCards"]

\* the bid test of collect_bids without its upper bound
ValidBid_NoUpperBound(bid, round_num) == ~(bid < 0)

\* the bid test of collect_bids
ValidBid(bid, round_num) == ~(bid < 0 \/ bid > round_num)

\* SkullKingGame.collect_bids, the players' make_bid answers being bid_of
CollectBidsResult(st, bid_of) ==
  IF st = NoState THEN [state |-> st, err |-> "NoActiveRound", ret |-> EmptyDict]
  ELSE LET bad == {p \in Players : ~ValidBid(bid_of[p], st.round_num)}
           stop == IF bad = {} THEN NumPlayers + 1
                   ELSE CHOOSE p \in bad : \A q \in bad : p <= q
           asked == {p \in Players : p < stop}
           bids == [p \in (DOMAIN st.bids) \cup asked |->
                      IF p \in asked THEN bid_of[p] ELSE st.bids[p]]
       IN  [state |-> [st EXCEPT !.bids = bids],
            err |-> IF bad = {} THEN "" ELSE "InvalidBid",
            ret |-> [p \in asked |-> bid_of[p]]]

\* SkullKingGame.start_trick
StartTrickResult(st) ==
  IF st = NoState THEN [state |-> st, err |-> "NoActiveRound"]
  ELSE [state |-> [st EXCEPT !.current_trick =
                      Trick(st.round_num, Len(st.tricks) + 1, st.trump_suit)],
        err |-> ""]

\* SkullKingGame.play_card that takes the card out of the hand before it
\* validates the play
PlayCardResult_RemoveBeforeCheck(st, player, card) ==
  IF st = NoState THEN [state |-> st, err |-> "NoActiveTrick", ret |-> FALSE]
  ELSE IF st.current_trick = NoTrick
       THEN [state |-> st, err |-> "NoActiveTrick", ret |-> FALSE]
  ELSE IF ~InSeq(card, st.hands[player])
       THEN [state |-> st, err |-> "IllegalPlay", ret |-> FALSE]
  ELSE IF ~InSeq(card, GetLegalCards(st, player))
       THEN [state |-> [st EXCEPT !.hands[player] = RemoveFirst(@, card)],
             err |-> "IllegalPlay", ret |-> FALSE]
  ELSE LET hands == [st.hands EXCEPT ![player] = RemoveFirst(@, card)]
           trick == TrickPlayCard(st.current_trick, player, card)
       IN  IF Len(trick.cards_played) = NumPlayers
           THEN LET winner == DetermineWinner(trick)
                    done == [trick EXCEPT !.winner = winner]
                IN  [state |-> [st EXCEPT
                                  !.hands = hands,
                                  !.tricks_won = [@ EXCEPT ![winner] = @ + 1],
                                  !.tricks = Append(@, done),
                                  !.current_trick = NoTrick],
                     err |-> "", ret |-> TRUE]
           ELSE [state |-> [st EXCEPT !.hands = hands, !.current_trick = trick],
                 err |-> "", ret |-> FALSE]

\* SkullKingGame.play_card that takes a trick for complete one play late
PlayCardResult_LateCompletion(st, player, card) ==
  IF st = NoState THEN [state |-> st, err |-> "NoActiveTrick", ret |-> FALSE]
  ELSE IF st.current_trick = NoTrick
       THEN [state |-> st, err |-> "NoActiveTrick", ret |-> FALSE]
  ELSE IF ~InSeq(card, GetLegalCards(st, player))
       THEN [state |-> st, err |-> "IllegalPlay", ret |-> FALSE]
  ELSE LET hands == [st.hands EXCEPT ![player] = RemoveFirst(@, card)]
           trick == TrickPlayCard(st.current_trick, player, card)
       IN  IF Len(trick.cards_played) = NumPlayers + 1
           THEN LET winner == DetermineWinner(trick)
                    done == [trick EXCEPT !.winner = winner]
                IN  [state |-> [st EXCEPT
                                  !.hands = hands,
                                  !.tricks_won = [@ EXCEPT ![winner] = @ + 1],
                                  !.tricks = Append(@, done),
                                  !.current_trick = NoTrick],
                     err |-> "", ret |-> TRUE]
           ELSE [state |-> [st EXCEPT !.hands = hands, !.current_trick = trick],
                 err |-> "", ret |-> FALSE]

\* SkullKingGame.play_card that archives a completed trick without counting
\* it for its winner
PlayCardResult_NoTally(st, player, card) ==
  IF st = NoState THEN [state |-> st, err |-> "NoActiveTrick", ret |-> FALSE]
  ELSE IF st.current_trick = NoTrick
       THEN [state |-> st, err |-> "NoActiveTrick", ret |-> FALSE]
  ELSE IF ~InSeq(card, GetLegalCards(st, player))
       THEN [state |-> st, err |-> "IllegalPlay", ret |-> FALSE]
  ELSE LET hands == [st.hands EXCEPT ![player] = RemoveFirst(@, card)]
           trick == TrickPlayCard(st.current_trick, player, card)
       IN  IF Len(trick.cards_played) = NumPlayers
           THEN LET winner == DetermineWinner(trick)
                    done == [trick EXCEPT !.winner = winner]
                IN  [state |-> [st EXCEPT
                                  !.hands = hands,
                                  !.tricks = Append(@, done),
                                  !.current_trick = NoTrick],
                     err |-> "", ret |-> TRUE]
           ELSE [state |-> [st EXCEPT !.hands = hands, !.current_trick = trick],
                 err |-> "", ret |-> FALSE]

\* SkullKingGame.play_card
PlayCardResult(st, player, card) ==
  IF st = NoState THEN [state |-> st, err |-> "NoActiveTrick", ret |-> FALSE]
  ELSE IF st.current_trick = NoTrick
       THEN [state |-> st, err |-> "NoActiveTrick", ret |-> FALSE]
  ELSE IF ~InSeq(card, GetLegalCards(st, player))
       THEN [state |-> st, err |-> "IllegalPlay", ret |-> FALSE]
  ELSE LET hands == [st.hands EXCEPT ![player] = RemoveFirst(@, card)]
           trick == TrickPlayCard(st.current_trick, player, card)
       IN  IF Len(trick.cards_played) = NumPlayers
           THEN LET winner == DetermineWinner(trick)
                    done == [trick EXCEPT !.winner = winner]
                IN  [state |-> [st EXCEPT
                                  !.hands = hands,
                                  !.tricks_won = [@ EXCEPT ![winner] = @ + 1],
                                  !.tricks = Append(@, done),
                                  !.current_trick = NoTrick],
                     err |-> "", ret |-> TRUE]
           ELSE [state |-> [st EXCEPT !.hands = hands, !.current_trick = trick],
                 err |-> "", ret |-> FALSE]

Abs(x) == IF x < 0 THEN -x ELSE x

\* the score of one player without the zero-bid override
BaseScore_NoZeroRule(bid, tricks_won, round_num) ==
  IF bid = tricks_won THEN bid * 20 + 10 ELSE -10 * Abs(bid - tricks_won)

\* the score of one player in calculate_scores
BaseScore(bid, tricks_won, round_num) ==
  LET score == IF bid = tricks_won THEN bid * 20 + 10
               ELSE -10 * Abs(bid - tricks_won)
  IN  IF bid = 0
      THEN (IF tricks_won = 0 THEN 10 * round_num ELSE -10 * round_num)
      ELSE score

\* SkullKingGame.calculate_scores that answers an empty result when no round
\* is active, as check_special_bonuses does
CalculateScoresResult_SilentNoRound(st, cum) ==
  IF st = NoState
  THEN [state |-> st, cum |-> cum, err |-> "", ret |-> EmptyDict]
  ELSE LET unbid == {p \in Players : p \notin DOMAIN st.bids}
           stop == IF unbid = {} THEN NumPlayers + 1
                   ELSE CHOOSE p \in unbid : \A q \in unbid : p <= q
           scored == {p \in Players : p < stop}
           round_scores == [p \in scored |->
                              BaseScore(st.bids[p], st.tricks_won[p], st.round_num)]
           scores == [p \in Players |->
                        IF p \in scored THEN st.scores[p] + round_scores[p]
                        ELSE st.scores[p]]
       IN  [state |-> [st EXCEPT !.scores = scores],
            cum |-> [p \in Players |-> IF p \in scored THEN scores[p] ELSE cum[p]],
            err |-> IF unbid = {} THEN "" ELSE "KeyError",
            ret |-> round_scores]

\* SkullKingGame.calculate_scores: bids[player] raises KeyError at the first
\* player without a bid, after the players before were scored
CalculateScoresResult(st, cum) ==
  IF st = NoState
  THEN [state |-> st, cum |-> cum, err |-> "NoActiveRound", ret |-> EmptyDict]
  ELSE LET unbid == {p \in Players : p \notin DOMAIN st.bids}
           stop == IF unbid = {} THEN NumPlayers + 1
                   ELSE CHOOSE p \in unbid : \A q \in unbid : p <= q
           scored == {p \in Players : p < stop}
           round_scores == [p \in scored |->
                              BaseScore(st.bids[p], st.tricks_won[p], st.round_num)]
           scores == [p \in Players |->
                        IF p \in scored THEN st.scores[p] + round_scores[p]
                        ELSE st.scores[p]]
       IN  [state |-> [st EXCEPT !.scores = scores],
            cum |-> [p \in Players |-> IF p \in scored THEN scores[p] ELSE cum[p]],
            err |-> IF unbid = {} THEN "" ELSE "KeyError",
            ret |-> round_scores]

\* index of the first play of `player` in the trick
FirstPlayOf(t, player) ==
  CHOOSE i \in 1..Len(t.cards_played) :
    /\ t.cards_played[i].player = player
    /\ \A j \in 1..(i - 1) : t.cards_played[j].player # player

\* skull_king_played in check_special_bonuses
SkullKingPlayed(t) ==
  \E i \in 1..Len(t.cards_played) : t.cards_played[i].card.card_type = "Skull King"

\* the bonus check_special_bonuses finds in one trick, and for whom
TrickBonus(t) ==
  LET winner == DetermineWinner(t)
      winner_card == t.cards_played[FirstPlayOf(t, winner)].card
  IN  [player |-> winner,
       points |-> IF ~SkullKingPlayed(t) \/ winner = 0 THEN 0
                  ELSE IF winner_card.card_type = "Mermaid" THEN 100
                  ELSE IF winner_card.card_type = "Pirate" THEN 50
                  ELSE 0]

RECURSIVE SumBonuses(_, _, _)
\* the loop of check_special_bonuses over tricks[i..] for one player
SumBonuses(tricks, i, p) ==
  IF i > Len(tricks) THEN 0
  ELSE (IF TrickBonus(tricks[i]).player = p THEN TrickBonus(tricks[i]).points ELSE 0)
       + SumBonuses(tricks, i + 1, p)

\* SkullKingGame.check_special_bonuses
CheckSpecialBonusesResult(st, cum) ==
  IF st = NoState THEN [state |-> st, cum |-> cum, ret |-> EmptyDict]
  ELSE LET bonuses == [p \in Players |-> SumBonuses(st.tricks, 1, p)]
           scores == [p \in Players |-> st.scores[p] + bonuses[p]]
           tricks == [i \in 1..Len(st.tricks) |->
                        IF SkullKingPlayed(st.tricks[i])
                        THEN [st.tricks[i] EXCEPT !.winner = DetermineWinner(st.tricks[i])]
                        ELSE st.tricks[i]]
       IN  [state |-> [st EXCEPT !.scores = scores, !.tricks = tricks],
            cum |-> scores, ret |-> bonuses]

RECURSIVE CardsInTricks(_, _)
CardsInTricks(tricks, i) ==
  IF i > Len(tricks) THEN 0
  ELSE Len(tricks[i].cards_played) + CardsInTricks(tricks, i + 1)

\* SkullKingGame.is_round_complete
IsRoundComplete(st) ==
  IF st = NoState THEN FALSE
  ELSE CardsInTricks(st.tricks, 1)
       + (IF st.current_trick = NoTrick THEN 0 ELSE Len(st.current_trick.cards_played))
       = st.round_num * NumPlayers

HasCurrentTrick(st) == st # NoState /\ st.current_trick # NoTrick

\* ------------------------------------------------- engine, called freely
NoProbe == [none |-> TRUE]

NoButtons == [none |-> TRUE]

Init ==
  /\ deck = CreateDeck
  /\ state = NoState
  /\ cumulative_scores = [p \in Players |-> 0]
  /\ current_round = 0
  /\ last = Result("", "", FALSE)
  /\ budget = [starts |-> 0, scorings |-> 0, bonuses |-> 0]
  /\ start_scores = [p \in Players |-> 0]
  /\ buttons = NoButtons
  /\ pc = "engine"
  /\ probe = NoProbe

\* a card no hand of the explored deals ever holds
ForeignCard == NumberCard("Green", 13)

\* the cards a caller may pass to play_card: any card of any hand, or a
\* card nobody holds
CardInputs(st) ==
  {ForeignCard} \cup
  (IF st = NoState THEN {}
   ELSE UNION {{st.hands[p][i] : i \in 1..Len(st.hands[p])} : p \in Players})

\* the answers make_bid may give in round n: the least and the greatest valid
\* bid, and one invalid bid on each side
BidInputs(n) == {-1, 0, n, n + 1}

\* the caller scores last: once it has called calculate_scores or
\* check_special_bonuses it makes no further bid, trick or play call, in
\* that round or in a round it starts afterwards
RoundOpen == budget.scorings = 0 /\ budget.bonuses = 0

\* a successful call leaves no trace of which call it was: `last` names the
\* operation only when it failed (a failed play_card with its arguments)
Outcome(op, err, ret) == IF err = "" THEN Result("", "", ret) ELSE Result(op, err, ret)

StartRound(round_num) ==
  /\ budget.starts < MaxStarts
  /\ \E shuffled \in FreshShuffles :
       LET r == StartRoundResult(shuffled, round_num, cumulative_scores, state)
       IN  /\ deck' = r.deck
           /\ state' = r.state
           /\ last' = Outcome("start_round", r.err, FALSE)
           /\ start_scores' = IF r.err = "" THEN cumulative_scores ELSE start_scores
  /\ budget' = [budget EXCEPT !.starts = @ + 1]
  /\ UNCHANGED <<cumulative_scores, current_round, buttons, pc, probe>>

CollectBids ==
  /\ RoundOpen
  /\ \E bid_of \in [Players -> BidInputs(IF state = NoState THEN 0 ELSE state.round_num)] :
       LET r == CollectBidsResult(state, bid_of)
       IN  /\ state' = r.state
           /\ last' = Outcome("collect_bids", r.err, FALSE)
  /\ UNCHANGED <<deck, cumulative_scores, current_round, budget, start_scores,
                 buttons, pc, probe>>

StartTrick ==
  /\ RoundOpen
  /\ LET r == StartTrickResult(state)
     IN  /\ state' = r.state
         /\ last' = Outcome("start_trick", r.err, FALSE)
  /\ UNCHANGED <<deck, cumulative_scores, current_round, budget, start_scores,
                 buttons, pc, probe>>

PlayCard(player, card) ==
  /\ RoundOpen
  /\ LET r == PlayCardResult(state, player, card)
     IN  /\ state' = r.state
         /\ last' = Outcome("play_card", r.err,
                            IF r.err = "" THEN r.ret
                            ELSE [player |-> player, card |-> card])
  /\ UNCHANGED <<deck, cumulative_scores, current_round, budget, start_scores,
                 buttons, pc, probe>>

CalculateScores ==
  /\ budget.scorings < MaxScorings
  /\ LET r == CalculateScoresResult(state, cumulative_scores)
     IN  /\ state' = r.state
         /\ cumulative_scores' = r.cum
         /\ last' = Outcome("calculate_scores", r.err, FALSE)
  /\ budget' = [budget EXCEPT !.scorings = @ + 1]
  /\ UNCHANGED <<deck, current_round, start_scores, buttons, pc, probe>>

CheckSpecialBonuses ==
  /\ budget.bonuses < MaxScorings
  /\ LET r == CheckSpecialBonusesResult(state, cumulative_scores)
     IN  /\ state' = r.state
         /\ cumulative_scores' = r.cum
         /\ last' = Outcome("check_special_bonuses", "", FALSE)
  /\ budget' = [budget EXCEPT !.bonuses = @ + 1]
  /\ UNCHANGED <<deck, current_round, start_scores, buttons, pc, probe>>

Next ==
  \/ \E n \in 1..MaxRound : StartRound(n)
  \/ CollectBids
  \/ StartTrick
  \/ \E p \in Players : \E c \in CardInputs(state) : PlayCard(p, c)
  \/ CalculateScores
  \/ CheckSpecialBonuses

Spec == Init /\ [][Next]_vars

\* ------------------------------------------------ pure functions, probed
\* Under the specifications below the engine is idle; `probe` holds the
\* inputs drawn in the initial state and, after the step, the result.
IdleEngine ==
  /\ deck = <<>>
  /\ state = NoState
  /\ cumulative_scores = [p \in Players |-> 0]
  /\ current_round = 0
  /\ last = Result("", "", FALSE)
  /\ budget = [starts |-> 0, scorings |-> 0, bonuses |-> 0]
  /\ start_scores = [p \in Players |-> 0]
  /\ buttons = NoButtons

evars == <<deck, state, cumulative_scores, current_round, last, budget,
           start_scores, buttons, pc>>

\* -- Card.beats
MaxValue == 13

NumberCards == {NumberCard(RealSuits[i], v) : i \in 1..4, v \in 1..MaxValue}

SpecialCards == {SpecialCard(t) : t \in SpecialTypes}

LedSuits == {RealSuits[i] : i \in 1..4} \cup {"Special"}

\* the trump_suit argument: a real suit, or None
TrumpSuits == {RealSuits[i] : i \in 1..4} \cup {"None"}

InitBeats ==
  /\ IdleEngine
  /\ pc = "beats"
  /\ \E a \in NumberCards \cup SpecialCards, b \in NumberCards \cup SpecialCards,
        led \in LedSuits, trump \in TrumpSuits :
       probe = [a |-> a, b |-> b, led_suit |-> led, trump_suit |-> trump, done |-> FALSE]

ApplyBeats ==
  /\ pc = "beats"
  /\ ~probe.done
  /\ probe' = [a |-> probe.a, b |-> probe.b, led_suit |-> probe.led_suit,
               trump_suit |-> probe.trump_suit, done |-> TRUE,
               a_beats_b |-> Beats(probe.a, probe.b, probe.led_suit, probe.trump_suit),
               b_beats_a |-> Beats(probe.b, probe.a, probe.led_suit, probe.trump_suit)]
  /\ UNCHANGED evars

SpecBeats == InitBeats /\ [][ApplyBeats]_vars

\* -- Card.beats on three cards, with a trump suit and Jolly Roger cards
OrderMaxValue == 3

\* Jolly Roger cards: Card.__init__ checks neither their suit nor their value
JollyRogerCards == {JollyRogerCard("None", 1), JollyRogerCard("Red", 2)}

OrderCards ==
  {NumberCard(RealSuits[i], v) : i \in 1..4, v \in 1..OrderMaxValue}
  \cup SpecialCards \cup JollyRogerCards

InitOrder ==
  /\ IdleEngine
  /\ pc = "order"
  /\ \E a \in OrderCards, b \in OrderCards, c \in OrderCards,
        led \in LedSuits, trump \in TrumpSuits :
       probe = [a |-> a, b |-> b, c |-> c, led_suit |-> led, trump_suit |-> trump,
                done |-> FALSE]

ApplyOrder ==
  /\ pc = "order"
  /\ ~probe.done
  /\ LET beats(x, y) == Beats(x, y, probe.led_suit, probe.trump_suit)
     IN  probe' = [a |-> probe.a, b |-> probe.b, c |-> probe.c,
                   led_suit |-> probe.led_suit, trump_suit |-> probe.trump_suit,
                   done |-> TRUE,
                   aa |-> beats(probe.a, probe.a),
                   ab |-> beats(probe.a, probe.b), ba |-> beats(probe.b, probe.a),
                   bc |-> beats(probe.b, probe.c), ac |-> beats(probe.a, probe.c)]
  /\ UNCHANGED evars

SpecOrder == InitOrder /\ [][ApplyOrder]_vars

\* -- Trick.determine_winner on a trick and on a reordering of its plays
MaxPlays == 3

WinnerCards ==
  {NumberCard("Red", 2), NumberCard("Red", 5), NumberCard("Blue", 3),
   NumberCard("Green", 4), SpecialCard("Escape"), SpecialCard("Tigress"),
   SpecialCard("Mermaid"), SpecialCard("Pirate"), SpecialCard("Skull King")}

\* the orders of n plays that keep the first play first
Reorderings(n) ==
  {f \in [1..n -> 1..n] : f[1] = 1 /\ \A i, j \in 1..n : f[i] = f[j] => i = j}

RECURSIVE PlayAll(_, _, _, _)
\* Trick.play_card called for the plays cards[order[i]], i = k.., each by the
\* player order[i]
PlayAll(t, cards, order, k) ==
  IF k > Len(order) THEN t
  ELSE PlayAll(TrickPlayCard(t, order[k], cards[order[k]]), cards, order, k + 1)

InitWinner ==
  /\ IdleEngine
  /\ pc = "winner"
  /\ \E n \in 2..MaxPlays : \E cards \in [1..n -> WinnerCards], order \in Reorderings(n) :
       probe = [cards |-> cards, order |-> order, done |-> FALSE]

ApplyWinner ==
  /\ pc = "winner"
  /\ ~probe.done
  /\ LET n == Len(probe.cards)
         played == PlayAll(Trick(1, 1, "None"), probe.cards, [i \in 1..n |-> i], 1)
         reordered == PlayAll(Trick(1, 1, "None"), probe.cards, probe.order, 1)
     IN  probe' = [cards |-> probe.cards, order |-> probe.order, done |-> TRUE,
                   led_suit |-> played.led_suit,
                   winner |-> DetermineWinner(played),
                   winner_reordered |-> DetermineWinner(reordered)]
  /\ UNCHANGED evars

SpecWinner == InitWinner /\ [][ApplyWinner]_vars

\* -- Deck: built, shuffled while complete, dealt from
MaxShuffles == 2

MaxDeal == 3

\* the num_cards a caller may ask of deal: a few cards, all that is left,
\* or one more than is left
DealRequests(cards) == (0..MaxDeal) \cup {Len(cards), Len(cards) + 1}

\* Deck.__init__; probe.n = -1 says that deal has not been called yet
InitDeck ==
  /\ IdleEngine
  /\ pc = "deck"
  /\ probe = [cards |-> CreateDeck, shuffles |-> 0, n |-> -1, ok |-> TRUE,
              dealt |-> <<>>]

\* Deck.shuffle, called on a deck nothing was dealt from
DeckShuffle ==
  /\ pc = "deck"
  /\ probe.n = -1
  /\ probe.shuffles < MaxShuffles
  /\ \E shuffled \in ShuffleOutcomes(probe.cards) :
       probe' = [probe EXCEPT !.cards = shuffled, !.shuffles = @ + 1]
  /\ UNCHANGED evars

\* Deck.deal(n); ok = FALSE stands for the ValueError
DeckDeal(n) ==
  /\ pc = "deck"
  /\ LET d == Deal(probe.cards, n)
     IN  probe' = [probe EXCEPT !.cards = d.cards, !.n = n, !.ok = d.ok,
                                !.dealt = d.dealt]
  /\ UNCHANGED evars

NextDeck ==
  \/ DeckShuffle
  \/ \E n \in DealRequests(probe.cards) : DeckDeal(n)

SpecDeck == InitDeck /\ [][NextDeck]_vars

\* -- SkullKingGame.__init__ and the deals of start_round, by game size
MaxPlayerCount == 7

MaxNumRounds == 12

\* SkullKingGame.__init__: the player counts it does not refuse
ConstructorAccepts(player_count) == ~(player_count < 2) /\ ~(player_count > 6)

InitRounds ==
  /\ IdleEngine
  /\ pc = "rounds"
  /\ \E player_count \in 1..MaxPlayerCount, num_rounds \in 1..MaxNumRounds :
     \E round_num \in 1..num_rounds :
       probe = [player_count |-> player_count, num_rounds |-> num_rounds,
                round_num |-> round_num, done |-> FALSE]

\* the constructor, then the deals of start_round(round_num) from a fresh
\* shuffled deck
ApplyRounds ==
  /\ pc = "rounds"
  /\ ~probe.done
  /\ \E shuffled \in FreshShuffles :
       LET d == DealHandsAmong(shuffled, probe.round_num, 1, EmptyDict, probe.player_count)
       IN  probe' = [player_count |-> probe.player_count, num_rounds |-> probe.num_rounds,
                     round_num |-> probe.round_num, done |-> TRUE,
                     accepted |-> ConstructorAccepts(probe.player_count),
                     dealt_all |-> d.ok, left |-> Len(d.cards)]
  /\ UNCHANGED evars

SpecRounds == InitRounds /\ [][ApplyRounds]_vars

\* -- GameState.get_legal_cards
MaxHand == 3

HandCards ==
  {NumberCard("Red", 5), NumberCard("Red", 7), NumberCard("Blue", 3),
   SpecialCard("Escape"), SpecialCard("Pirate")}

LeadCards ==
  {NumberCard("Red", 9), NumberCard("Blue", 1), NumberCard("Green", 2),
   SpecialCard("Escape"), SpecialCard("Skull King")}

Hands == UNION {[1..n -> HandCards] : n \in 0..MaxHand}

\* the trick states a hand can meet: no trick, a trick without plays, a
\* trick led by one card, a trick with a second play
TrickStates ==
  {NoTrick, Trick(1, 1, "None")}
  \cup {TrickPlayCard(Trick(1, 1, "None"), 2, c) : c \in LeadCards}
  \cup {TrickPlayCard(TrickPlayCard(Trick(1, 1, "None"), 2, c), 3, SpecialCard("Pirate")) :
          c \in LeadCards}

InitLegal ==
  /\ IdleEngine
  /\ pc = "legal"
  /\ \E hand \in Hands, t \in TrickStates :
       probe = [hand |-> hand, trick |-> t, done |-> FALSE]

ApplyLegal ==
  /\ pc = "legal"
  /\ ~probe.done
  /\ probe' = [hand |-> probe.hand, trick |-> probe.trick, done |-> TRUE,
               legal |-> GetLegalCards([GameState(1) EXCEPT
                                          !.hands = [p \in {1} |-> probe.hand],
                                          !.current_trick = probe.trick], 1)]
  /\ UNCHANGED evars

SpecLegal == InitLegal /\ [][ApplyLegal]_vars

\* -- the score of one player in calculate_scores
MaxScoreRound == 5

InitScore ==
  /\ IdleEngine
  /\ pc = "score"
  /\ \E r \in 1..MaxScoreRound : \E bid \in 0..r, won \in 0..r :
       probe = [round_num |-> r, bid |-> bid, tricks_won |-> won, done |-> FALSE]

ApplyScore ==
  /\ pc = "score"
  /\ ~probe.done
  /\ probe' = [round_num |-> probe.round_num, bid |-> probe.bid,
               tricks_won |-> probe.tricks_won, done |-> TRUE,
               score |-> BaseScore(probe.bid, probe.tricks_won, probe.round_num)]
  /\ UNCHANGED evars

SpecScore == InitScore /\ [][ApplyScore]_vars

\* ---------------------------------------------------------------- driver
\* SkullKingGUI drives the engine from its three buttons. A handler runs to
\* its end before the next event is looked at, except auto_play_round, whose
\* loop is followed play by play (pc = "auto"; no event is handled meanwhile).
\* The first round is started by a call of next_round before the event loop
\* runs (pc = "new"). An exception that leaves a handler is caught by
\* handle_events and named in `last`.
NumRounds == 2

\* SkullKingGUI.create_buttons: the 'enabled' flags
InitialButtons == [next_trick |-> FALSE, next_round |-> FALSE, auto_play |-> TRUE]

\* SkullKingGUI.update_buttons
UpdateButtons(st, round, btn) ==
  IF st = NoState THEN btn
  ELSE [btn EXCEPT
          !.next_trick = (st.current_trick # NoTrick) \/ ~IsRoundComplete(st),
          !.next_round = IsRoundComplete(st) /\ round < NumRounds]

\* what a bot's play_card may do: return a card of its hand, return a card
\* it does not hold, or raise
BotAnswers(hand) ==
  {[raise |-> FALSE, card |-> hand[i]] : i \in 1..Len(hand)}
  \cup {[raise |-> FALSE, card |-> ForeignCard], [raise |-> TRUE, card |-> ForeignCard]}

\* the last player of the list who has not played in trick t, 0 if none
NextPlayer_LastFirst(t) ==
  LET waiting == {p \in Players :
                    \A i \in 1..Len(t.cards_played) : t.cards_played[i].player # p}
  IN  IF waiting = {} THEN 0 ELSE CHOOSE p \in waiting : \A q \in waiting : p >= q

\* the first player of the list who has not played in trick t, 0 if none
NextPlayer(t) ==
  LET waiting == {p \in Players :
                    \A i \in 1..Len(t.cards_played) : t.cards_played[i].player # p}
  IN  IF waiting = {} THEN 0 ELSE CHOOSE p \in waiting : \A q \in waiting : p <= q

\* SkullKingGUI.play_trick without the play in its except branch: after an
\* exception no card is played
PlayTrick_GivesUpOnRaise(g, answer) ==
  IF ~HasCurrentTrick(g.state) THEN g
  ELSE IF NextPlayer(g.state.current_trick) = 0 THEN g
  ELSE LET next_player == NextPlayer(g.state.current_trick)
           legal_cards == GetLegalCards(g.state, next_player)
           card == IF InSeq(answer.card, legal_cards) THEN answer.card ELSE legal_cards[1]
           played == PlayCardResult(g.state, next_player, card)
           recovered == PlayCardResult(g.state, next_player, legal_cards[1])
           scored == CalculateScoresResult(played.state, g.cum)
           bonused == CheckSpecialBonusesResult(scored.state, scored.cum)
       IN  IF Len(legal_cards) = 0 THEN g
           ELSE IF answer.raise \/ played.err # ""
                THEN g
           ELSE IF ~played.ret THEN [g EXCEPT !.state = played.state]
           ELSE IF ~IsRoundComplete(played.state)
                THEN [g EXCEPT !.state = played.state,
                               !.buttons = UpdateButtons(played.state, g.round, @)]
           ELSE IF scored.err # ""
                THEN [g EXCEPT !.state = scored.state, !.cum = scored.cum,
                               !.scorings = @ + 1]
           ELSE [g EXCEPT !.state = bonused.state, !.cum = bonused.cum,
                          !.scorings = @ + 1,
                          !.buttons = UpdateButtons(bonused.state, g.round, @)]

\* SkullKingGUI.play_trick whose substitute for a refused selection is the
\* last card of the legal set
PlayTrick_SubstitutesLast(g, answer) ==
  IF ~HasCurrentTrick(g.state) THEN g
  ELSE IF NextPlayer(g.state.current_trick) = 0 THEN g
  ELSE LET next_player == NextPlayer(g.state.current_trick)
           legal_cards == GetLegalCards(g.state, next_player)
           card == IF InSeq(answer.card, legal_cards) THEN answer.card 
                   ELSE legal_cards[Len(legal_cards)]
           played == PlayCardResult(g.state, next_player, card)
           recovered == PlayCardResult(g.state, next_player, legal_cards[Len(legal_cards)])
           scored == CalculateScoresResult(played.state, g.cum)
           bonused == CheckSpecialBonusesResult(scored.state, scored.cum)
       IN  IF Len(legal_cards) = 0 THEN g
           ELSE IF answer.raise \/ played.err # ""
                THEN [g EXCEPT !.state = recovered.state]
           ELSE IF ~played.ret THEN [g EXCEPT !.state = played.state]
           ELSE IF ~IsRoundComplete(played.state)
                THEN [g EXCEPT !.state = played.state,
                               !.buttons = UpdateButtons(played.state, g.round, @)]
           ELSE IF scored.err # ""
                THEN [g EXCEPT !.state = scored.state, !.cum = scored.cum,
                               !.scorings = @ + 1]
           ELSE [g EXCEPT !.state = bonused.state, !.cum = bonused.cum,
                          !.scorings = @ + 1,
                          !.buttons = UpdateButtons(bonused.state, g.round, @)]

\* SkullKingGUI.play_trick on g = [state, cum, buttons, scorings, round],
\* `answer` being the next player's answer to play_card. After an exception in
\* the try block the recovery plays legal_cards[0]; when the exception came
\* from calculate_scores the trick is already archived and that play fails.
PlayTrick(g, answer) ==
  IF ~HasCurrentTrick(g.state) THEN g
  ELSE IF NextPlayer(g.state.current_trick) = 0 THEN g
  ELSE LET next_player == NextPlayer(g.state.current_trick)
           legal_cards == GetLegalCards(g.state, next_player)
           card == IF InSeq(answer.card, legal_cards) THEN answer.card ELSE legal_cards[1]
           played == PlayCardResult(g.state, next_player, card)
           recovered == PlayCardResult(g.state, next_player, legal_cards[1])
           scored == CalculateScoresResult(played.state, g.cum)
           bonused == CheckSpecialBonusesResult(scored.state, scored.cum)
       IN  IF Len(legal_cards) = 0 THEN g
           ELSE IF answer.raise \/ played.err # ""
                THEN [g EXCEPT !.state = recovered.state]
           ELSE IF ~played.ret THEN [g EXCEPT !.state = played.state]
           ELSE IF ~IsRoundComplete(played.state)
                THEN [g EXCEPT !.state = played.state,
                               !.buttons = UpdateButtons(played.state, g.round, @)]
           ELSE IF scored.err # ""
                THEN [g EXCEPT !.state = scored.state, !.cum = scored.cum,
                               !.scorings = @ + 1]
           ELSE [g EXCEPT !.state = bonused.state, !.cum = bonused.cum,
                          !.scorings = @ + 1,
                          !.buttons = UpdateButtons(bonused.state, g.round, @)]

\* SkullKingGUI.next_trick; err names the exception that leaves it
NextTrickHandler(g, answer) ==
  IF g.state = NoState THEN [g |-> g, err |-> ""]
  ELSE IF g.state.current_trick = NoTrick
       THEN IF IsRoundComplete(g.state)
            THEN LET scored == CalculateScoresResult(g.state, g.cum)
                     bonused == CheckSpecialBonusesResult(scored.state, scored.cum)
                 IN  IF scored.err # ""
                     THEN [g |-> [g EXCEPT !.state = scored.state, !.cum = scored.cum,
                                          !.scorings = @ + 1],
                           err |-> scored.err]
                     ELSE [g |-> [g EXCEPT !.state = bonused.state, !.cum = bonused.cum,
                                          !.scorings = @ + 1,
                                          !.buttons = UpdateButtons(bonused.state, g.round, @)],
                           err |-> ""]
            ELSE LET started == [g EXCEPT !.state = StartTrickResult(g.state).state]
                     after == PlayTrick(started, answer)
                 IN  [g |-> [after EXCEPT !.buttons = UpdateButtons(after.state, after.round, @)],
                      err |-> ""]
  ELSE LET after == PlayTrick(g, answer)
       IN  [g |-> [after EXCEPT !.buttons = UpdateButtons(after.state, after.round, @)],
            err |-> ""]

\* SkullKingGUI.next_round on the shuffled fresh deck and the players' bids;
\* deck is the engine's deck after it
NextRoundHandler(g, old_deck, shuffled, bid_of) ==
  IF g.round >= NumRounds
  THEN [g |-> [g EXCEPT !.buttons.next_round = FALSE], deck |-> old_deck, err |-> "",
        started |-> FALSE]
  ELSE LET round == g.round + 1
           dealt == StartRoundResult(shuffled, round, g.cum, g.state)
           bid == CollectBidsResult(dealt.state, bid_of)
           trick == StartTrickResult(bid.state)
       IN  IF dealt.err # ""
           THEN [g |-> [g EXCEPT !.round = round], deck |-> dealt.deck,
                 err |-> dealt.err, started |-> FALSE]
           ELSE IF bid.err # ""
           THEN [g |-> [g EXCEPT !.round = round, !.state = bid.state, !.scorings = 0],
                 deck |-> dealt.deck, err |-> bid.err, started |-> TRUE]
           ELSE [g |-> [g EXCEPT !.round = round, !.state = trick.state, !.scorings = 0,
                                 !.buttons = UpdateButtons(trick.state, round, @)],
                 deck |-> dealt.deck, err |-> "", started |-> TRUE]

Game == [state |-> state, cum |-> cumulative_scores, buttons |-> buttons,
         scorings |-> budget.scorings, round |-> current_round]

\* writes g back to the variables
Becomes(g) ==
  /\ state' = g.state
  /\ cumulative_scores' = g.cum
  /\ buttons' = g.buttons
  /\ budget' = [budget EXCEPT !.scorings = g.scorings]
  /\ current_round' = g.round

\* the answers the driver may get from the bot it asks next: the next
\* player of the open trick, or the first player when a trick is to be opened
Answers ==
  IF state = NoState THEN {[raise |-> TRUE, card |-> ForeignCard]}
  ELSE LET asked == IF state.current_trick = NoTrick THEN 1
                    ELSE NextPlayer(state.current_trick)
       IN  IF asked = 0 THEN {[raise |-> TRUE, card |-> ForeignCard]}
           ELSE BotAnswers(state.hands[asked])

InitGui ==
  /\ deck = CreateDeck
  /\ state = NoState
  /\ cumulative_scores = [p \in Players |-> 0]
  /\ current_round = 0
  /\ last = Result("", "", FALSE)
  /\ budget = [starts |-> 0, scorings |-> 0, bonuses |-> 0]
  /\ start_scores = [p \in Players |-> 0]
  /\ buttons = InitialButtons
  /\ pc = "new"
  /\ probe = NoProbe

\* next_round() called before the event loop, then run() as far as its
\* update_buttons; an exception of next_round ends the program
Launch ==
  /\ pc = "new"
  /\ \E shuffled \in FreshShuffles :
     \E bid_of \in [Players -> BidInputs(current_round + 1)] :
       LET r == NextRoundHandler(Game, deck, shuffled, bid_of)
       IN  /\ Becomes([r.g EXCEPT !.buttons =
                         IF r.err = "" THEN UpdateButtons(r.g.state, r.g.round, @) ELSE @])
           /\ deck' = r.deck
           /\ last' = Outcome("next_round", r.err, FALSE)
           /\ start_scores' = IF r.started THEN cumulative_scores ELSE start_scores
           /\ pc' = IF r.err = "" THEN "idle" ELSE "crashed"
  /\ UNCHANGED probe

\* a click on NEXT ROUND
ClickNextRound ==
  /\ pc = "idle"
  /\ buttons.next_round
  /\ \E shuffled \in FreshShuffles :
     \E bid_of \in [Players -> BidInputs(current_round + 1)] :
       LET r == NextRoundHandler(Game, deck, shuffled, bid_of)
       IN  /\ Becomes(r.g)
           /\ deck' = r.deck
           /\ last' = Outcome("next_round", r.err, FALSE)
           /\ start_scores' = IF r.started THEN cumulative_scores ELSE start_scores
  /\ UNCHANGED <<pc, probe>>

\* a click on NEXT TRICK / NEXT CARD
ClickNextTrick ==
  /\ pc = "idle"
  /\ buttons.next_trick
  /\ budget.scorings <= MaxScorings
  /\ \E answer \in Answers :
       LET r == NextTrickHandler(Game, answer)
       IN  /\ Becomes(r.g)
           /\ last' = Outcome("next_trick", r.err, FALSE)
  /\ UNCHANGED <<deck, start_scores, pc, probe>>

\* a click on AUTO PLAY: auto_play_round up to its loop
ClickAutoPlay ==
  /\ pc = "idle"
  /\ buttons.auto_play
  /\ budget.scorings <= MaxScorings
  /\ IF state = NoState
     THEN UNCHANGED <<buttons, pc>>
     ELSE buttons' = [buttons EXCEPT !.auto_play = FALSE] /\ pc' = "auto"
  /\ last' = Result("", "", FALSE)
  /\ UNCHANGED <<deck, state, cumulative_scores, current_round, budget, start_scores, probe>>

\* one turn of auto_play_round's loop: start_trick if no trick is open, then
\* one play_trick
AutoPlayStep ==
  /\ pc = "auto"
  /\ ~IsRoundComplete(state)
  /\ \E answer \in Answers :
       LET g == Game
           started == IF state.current_trick = NoTrick
                      THEN [g EXCEPT !.state = StartTrickResult(state).state]
                      ELSE g
       IN  Becomes(PlayTrick(started, answer))
  /\ UNCHANGED <<deck, last, start_scores, pc, probe>>

\* auto_play_round after its loop: both scoring calls, update_buttons, and
\* the button enabled again; the KeyError of calculate_scores leaves the
\* handler before that
AutoPlayFinish ==
  /\ pc = "auto"
  /\ IsRoundComplete(state)
  /\ LET scored == CalculateScoresResult(state, cumulative_scores)
         bonused == CheckSpecialBonusesResult(scored.state, scored.cum)
     IN  IF scored.err # ""
         THEN /\ Becomes([Game EXCEPT !.state = scored.state, !.cum = scored.cum,
                                      !.scorings = @ + 1])
              /\ last' = Outcome("auto_play", scored.err, FALSE)
         ELSE /\ Becomes([Game EXCEPT
                            !.state = bonused.state, !.cum = bonused.cum,
                            !.scorings = @ + 1,
                            !.buttons = [UpdateButtons(bonused.state, current_round, @)
                                           EXCEPT !.auto_play = TRUE]])
              /\ last' = Result("", "", FALSE)
  /\ pc' = "idle"
  /\ UNCHANGED <<deck, start_scores, probe>>

NextGui ==
  \/ Launch
  \/ ClickNextRound
  \/ ClickNextTrick
  \/ ClickAutoPlay
  \/ AutoPlayStep
  \/ AutoPlayFinish

SpecGui == InitGui /\ [][NextGui]_vars

\* auto_play_round is about to take a turn of its loop
AutoTurnWaits == pc = "auto" /\ ~IsRoundComplete(state)

\* auto_play_round has left its loop and is about to score
AutoFinishWaits == pc = "auto" /\ IsRoundComplete(state)

\* the driver with auto_play_round running on, its loop and the calls after
\* it waiting for no event: weak fairness of AutoPlayStep and of
\* AutoPlayFinish, each written with the action's guard for its
\* enabledness and with the action's change of pc for its step
SpecGuiFair ==
  /\ SpecGui
  /\ ([]<>~AutoTurnWaits \/ []<><<pc = "auto" /\ pc' = "auto">>_vars)
  /\ ([]<>~AutoFinishWaits \/ []<><<pc = "auto" /\ pc' = "idle">>_vars)

\* ================================================================ claims
RECURSIVE SumLen(_, _)
SumLen(hands, p) == IF p > NumPlayers THEN 0 ELSE Len(hands[p]) + SumLen(hands, p + 1)

\* cards in the deck, in the hands, in the archived tricks and in the
\* current trick
CardCount ==
  Len(deck)
  + (IF state = NoState THEN 0
     ELSE SumLen(state.hands, 1) + CardsInTricks(state.tricks, 1)
          + (IF state.current_trick = NoTrick THEN 0
             ELSE Len(state.current_trick.cards_played)))

\* C1: at every point of a round, whatever engine calls were made, the cards
\* in the hands, in the archived and current tricks and in the deck are 63
\* in all.
C1_CardConservation == CardCount = 63

\* the legal set as the rules state it: the whole hand unless a trick with
\* a real led suit is under way and the hand holds a Number card of it, and
\* then the positions of the hand's Number cards of that suit
MustFollow(hand, t) ==
  /\ t # NoTrick
  /\ Len(t.cards_played) > 0
  /\ t.led_suit \in {RealSuits[i] : i \in 1..4}
  /\ \E i \in 1..Len(hand) : hand[i].card_type = "Number" /\ hand[i].suit = t.led_suit

LegalPositions(hand, t) ==
  IF MustFollow(hand, t)
  THEN {i \in 1..Len(hand) : hand[i].card_type = "Number" /\ hand[i].suit = t.led_suit}
  ELSE 1..Len(hand)

IsLegal(card, hand, t) == \E i \in LegalPositions(hand, t) : hand[i] = card

\* C2: play_card with a card outside the player's legal set (a card the
\* player does not hold included) fails with the illegal-play error and
\* leaves hands, current trick, archived tricks and tallies as they were.
C2_IllegalPlayChangesNothing ==
  [][\A p \in Players : \A c \in CardInputs(state) :
       (/\ PlayCard(p, c)
        /\ HasCurrentTrick(state)
        /\ ~IsLegal(c, state.hands[p], state.current_trick))
       => (/\ last'.op = "play_card"
           /\ last'.err = "IllegalPlay"
           /\ state' = state
           /\ deck' = deck
           /\ cumulative_scores' = cumulative_scores)]_vars

\* an illegal play of a card the player holds has just been refused
C2_Witness ==
  /\ HasCurrentTrick(state)
  /\ last.op = "play_card"
  /\ last.err = "IllegalPlay"
  /\ InSeq(last.ret.card, state.hands[last.ret.player])
  /\ ~IsLegal(last.ret.card, state.hands[last.ret.player], state.current_trick)

C4_SpecialsAlwaysLegal ==
  [][\A p \in Players : \A c \in CardInputs(state) :
       (/\ PlayCard(p, c)
        /\ HasCurrentTrick(state)
        /\ c.card_type \in SpecialTypes
        /\ InSeq(c, state.hands[p]))
       => (/\ InSeq(c, GetLegalCards(state, p))
           /\ last'.err = "")]_vars

IsIncreasing(f, n) == \A i \in 1..n : \A j \in 1..n : i < j => f[i] < f[j]

\* sub is hand with some positions left out
IsSubSequence(sub, hand) ==
  /\ Len(sub) <= Len(hand)
  /\ \E f \in [1..Len(sub) -> 1..Len(hand)] :
       IsIncreasing(f, Len(sub)) /\ \A k \in 1..Len(sub) : sub[k] = hand[f[k]]

\* C5: for a non-empty hand get_legal_cards returns a non-empty
\* sub-sequence of the hand (cards of the hand, in the hand's order).
C5_LegalNonEmptySubSequence ==
  (pc = "legal" /\ probe.done /\ Len(probe.hand) > 0) =>
    /\ Len(probe.legal) > 0
    /\ IsSubSequence(probe.legal, probe.hand)

\* a hand that cannot follow the real led suit
C5_Witness ==
  /\ pc = "legal" /\ probe.done
  /\ probe.trick # NoTrick
  /\ probe.trick.led_suit = "Green"
  /\ Len(probe.hand) = 2
  /\ probe.legal = probe.hand

\* C6: the base round score is bid*20+10 for a met bid > 0, 10*round_num for
\* a met zero bid, -10*round_num for a missed zero bid, -10*|bid - tricks_won|
\* for a missed bid > 0 (3/3: 70; 0/0 in round 5: 50; 0/2 in round 5: -50;
\* 4/1: -30).
C6_BaseScore ==
  (pc = "score" /\ probe.done) =>
    /\ (probe.bid = probe.tricks_won /\ probe.bid > 0)
         => probe.score = probe.bid * 20 + 10
    /\ (probe.bid = 0 /\ probe.tricks_won = 0) => probe.score = 10 * probe.round_num
    /\ (probe.bid = 0 /\ probe.tricks_won # 0) => probe.score = -10 * probe.round_num
    /\ (probe.bid > 0 /\ probe.bid > probe.tricks_won)
         => probe.score = -10 * (probe.bid - probe.tricks_won)
    /\ (probe.bid > 0 /\ probe.bid < probe.tricks_won)
         => probe.score = -10 * (probe.tricks_won - probe.bid)
    /\ (probe.bid = 3 /\ probe.tricks_won = 3) => probe.score = 70
    /\ (probe.bid = 0 /\ probe.tricks_won = 0 /\ probe.round_num = 5) => probe.score = 50
    /\ (probe.bid = 0 /\ probe.tricks_won = 2 /\ probe.round_num = 5) => probe.score = -50
    /\ (probe.bid = 4 /\ probe.tricks_won = 1) => probe.score = -30

\* the missed zero bid of round 5 has been scored
C6_Witness ==
  /\ pc = "score" /\ probe.done
  /\ probe.bid = 0 /\ probe.tricks_won = 2 /\ probe.round_num = 5
  /\ probe.score = -50

\* the card that wins trick t: the play the winner fold ends on
WinningCard(t) == t.cards_played[WinnerFold(t, 1, 2)].card

\* the capture bonus of trick t for player p as the rules state it
ClaimedTrickBonus(t, p) ==
  IF t.winner # p \/ ~SkullKingPlayed(t) THEN 0
  ELSE IF WinningCard(t).card_type = "Mermaid" THEN 100
  ELSE IF WinningCard(t).card_type = "Pirate" THEN 50
  ELSE 0

RECURSIVE ClaimedBonus(_, _, _)
ClaimedBonus(tricks, i, p) ==
  IF i > Len(tricks) THEN 0
  ELSE ClaimedTrickBonus(tricks[i], p) + ClaimedBonus(tricks, i + 1, p)

\* C7: check_special_bonuses gives the winner of each archived trick +100
\* when a Skull King was played in it and the winning card is a Mermaid, +50
\* when the winning card is a Pirate, nothing otherwise, nothing to anyone
\* else, summed over the round's tricks.
C7_CaptureBonus ==
  [][(CheckSpecialBonuses /\ state # NoState) =>
       \A p \in Players :
         state'.scores[p] = state.scores[p] + ClaimedBonus(state.tricks, 1, p)]_vars

\* C9: calculate_scores and check_special_bonuses change the round's scores
\* and the cumulative scores only when the round is complete.
C9_NoScoringBeforeCompletion ==
  [][((CalculateScores \/ CheckSpecialBonuses) /\ state # NoState
      /\ CardCount - Len(deck) - SumLen(state.hands, 1) # state.round_num * NumPlayers)
       => (state'.scores = state.scores /\ cumulative_scores' = cumulative_scores)]_vars

NeitherBeats(a, b, led_suit) ==
  \/ a.card_type = "Escape" /\ b.card_type = "Escape"
  \/ a.card_type = "Tigress" /\ b.card_type = "Number"
  \/ a.card_type = "Number" /\ b.card_type = "Tigress"
  \/ /\ a.card_type = "Number" /\ b.card_type = "Number"
     /\ a.suit # b.suit /\ a.suit # led_suit /\ b.suit # led_suit

ClaimedBaseScore(bid, tricks_won, round_num) ==
  CASE bid = tricks_won /\ bid > 0 -> bid * 20 + 10
    [] bid = tricks_won /\ bid = 0 -> 10 * round_num
    [] bid # tricks_won /\ bid = 0 -> -10 * round_num
    [] bid # tricks_won /\ bid > 0 /\ bid > tricks_won -> -10 * (bid - tricks_won)
    [] bid # tricks_won /\ bid > 0 /\ bid < tricks_won -> -10 * (tricks_won - bid)

\* C8: a round driven to completion through the driver's controls adds its
\* deltas to the cumulative score exactly once: once the round is complete
\* and scored, each player's cumulative score is the score at start_round
\* plus one base round score plus the round's capture bonuses, whatever
\* controls are used afterwards.
C8_ScoredExactlyOnce ==
  (/\ pc = "idle"
   /\ state # NoState
   /\ IsRoundComplete(state)
   /\ DOMAIN state.bids = Players
   /\ budget.scorings >= 1) =>
    \A p \in Players :
      cumulative_scores[p]
        = start_scores[p]
          + ClaimedBaseScore(state.bids[p], state.tricks_won[p], state.round_num)
          + ClaimedBonus(state.tricks, 1, p)

\* C11: for every led suit and trump suit, beats is irreflexive (no card
\* beats a card equal to itself), asymmetric (a beats b implies b does not
\* beat a) and transitive (a beats b and b beats c imply a beats c).
C11_StrictPartialOrder ==
  (pc = "order" /\ probe.done) =>
    /\ ~probe.aa
    /\ probe.ab => ~probe.ba
    /\ (probe.ab /\ probe.bc) => probe.ac

\* a chain through a trump card: Green 1 (trump) beats Red 3 (led), which
\* beats Blue 2
C11_Witness ==
  /\ pc = "order" /\ probe.done
  /\ probe.a = NumberCard("Green", 1) /\ probe.b = NumberCard("Red", 3)
  /\ probe.c = NumberCard("Blue", 2)
  /\ probe.led_suit = "Red" /\ probe.trump_suit = "Green"
  /\ probe.ab /\ probe.bc /\ probe.ac /\ ~probe.ba

Ranked == {"Skull King", "Mermaid", "Pirate"}

C13_OrderIndependent ==
  (pc = "winner" /\ probe.done) => probe.winner_reordered = probe.winner

\* the winner's card beats every other card of the trick under its led suit
WinnerDominates ==
  \A j \in 1..Len(probe.cards) :
    j # probe.winner =>
      Beats(probe.cards[probe.winner], probe.cards[j], probe.led_suit, "None")

\* C13, amended: with the first play fixed, reordering the other plays does
\* not change the player determine_winner returns when the winner's card
\* beats every other card played in the trick under the trick's led suit.
C13_OrderIndependentWhenDominant ==
  (pc = "winner" /\ probe.done /\ WinnerDominates) =>
    probe.winner_reordered = probe.winner

\* Red 2 led, then Blue 3 and a Pirate; the reordering plays the Pirate
\* before Blue 3, and the Pirate's player wins either way
C13_Witness ==
  /\ pc = "winner" /\ probe.done
  /\ probe.cards = <<NumberCard("Red", 2), NumberCard("Blue", 3), SpecialCard("Pirate")>>
  /\ probe.order = <<1, 3, 2>>
  /\ WinnerDominates
  /\ probe.winner = 3 /\ probe.winner_reordered = 3

RECURSIVE TallySum(_, _)
\* the sum of the tricks-won tallies of the players p..NumPlayers
TallySum(tricks_won, p) ==
  IF p > NumPlayers THEN 0
  ELSE (IF p \in DOMAIN tricks_won THEN tricks_won[p] ELSE 0) + TallySum(tricks_won, p + 1)

\* what a successful play_card(p, c) does to the trick and the tallies
TrickStep(p, c) ==
  IF Len(state.current_trick.cards_played) + 1 = NumPlayers
  THEN LET n == Len(state'.tricks)
           t == state'.tricks[n]
       IN  /\ last'.ret = TRUE
           /\ state'.current_trick = NoTrick
           /\ n = Len(state.tricks) + 1
           /\ SubSeq(state'.tricks, 1, n - 1) = state.tricks
           /\ t.cards_played =
                Append(state.current_trick.cards_played, [player |-> p, card |-> c])
           /\ t.winner = DetermineWinner(t)
           /\ \E i \in 1..Len(t.cards_played) : t.cards_played[i].player = t.winner
           /\ state'.tricks_won = [state.tricks_won EXCEPT ![t.winner] = @ + 1]
  ELSE /\ last'.ret = FALSE
       /\ state'.tricks_won = state.tricks_won
       /\ state'.tricks = state.tricks
       /\ state'.current_trick # NoTrick

\* C14: the play_card call that brings the current trick to player_count
\* plays resolves the winner, adds exactly 1 to exactly that player's tally,
\* appends the trick to the archived list, clears the current trick and
\* returns true; every other successful play_card returns false and changes
\* no tally; so the tallies always sum to the number of archived tricks.
C14_TrickCompletionTally ==
  /\ [][\A p \in Players : \A c \in CardInputs(state) :
          (PlayCard(p, c) /\ last'.err = "") => TrickStep(p, c)]_vars
  /\ [](state # NoState => TallySum(state.tricks_won, 1) = Len(state.tricks))

\* a play has just completed the second trick of a round
C14_Witness ==
  /\ state # NoState
  /\ last.err = "" /\ last.ret = TRUE
  /\ state.current_trick = NoTrick
  /\ Len(state.tricks) = 2
  /\ TallySum(state.tricks_won, 1) = 2

\* the cards in the archived tricks and in the current trick
CardsPlayed(st) ==
  CardsInTricks(st.tricks, 1)
  + (IF st.current_trick = NoTrick THEN 0 ELSE Len(st.current_trick.cards_played))

\* C15: in every reachable state of a round, is_round_complete is true
\* exactly when the cards in the archived tricks and the current trick number
\* round_num x player_count, and that is so exactly when every hand is empty.
C15_RoundCompletion ==
  state # NoState =>
    /\ IsRoundComplete(state) <=> (CardsPlayed(state) = state.round_num * NumPlayers)
    /\ (CardsPlayed(state) = state.round_num * NumPlayers)
         <=> (\A p \in Players : Len(state.hands[p]) = 0)

\* the round state start_round(n) leaves
FreshRound(st, n) ==
  /\ st # NoState
  /\ st.round_num = n
  /\ DOMAIN st.hands = Players
  /\ \A p \in Players : Len(st.hands[p]) = n
  /\ DOMAIN st.tricks_won = Players
  /\ \A p \in Players : st.tricks_won[p] = 0
  /\ DOMAIN st.bids = {}
  /\ st.tricks = <<>>
  /\ st.current_trick = NoTrick

\* C16: after start_round(n) succeeds, in any prior state, every player
\* holds n cards, every tally is 0, the bid map is empty, there is no
\* archived and no current trick, the round's scores equal the cumulative
\* scores, and the cumulative scores are unchanged.
C16_StartRoundResets ==
  [][\A n \in 1..MaxRound :
       (StartRound(n) /\ last'.err = "")
       => (/\ FreshRound(state', n)
           /\ state'.scores = cumulative_scores
           /\ cumulative_scores' = cumulative_scores)]_vars

\* a round started after an earlier round was played and scored
C16_Witness ==
  /\ budget.starts = 2 /\ budget.scorings = 1
  /\ cumulative_scores[1] # 0
  /\ state # NoState
  /\ FreshRound(state, state.round_num)
  /\ state.scores = cumulative_scores
  /\ start_scores = cumulative_scores

BidInRange(b, n) == b \in 0..n

\* C17: collect_bids fails with an invalid-bid error when a player it asks
\* answers outside [0, round_num], records no bid other than the answer
\* given, and every bid recorded in the round's bid map is in 0..round_num.
C17_BidsInRange ==
  state # NoState =>
    /\ \A p \in DOMAIN state.bids : BidInRange(state.bids[p], state.round_num)
    /\ \A bid_of \in [Players -> BidInputs(state.round_num)] :
         LET r == CollectBidsResult(state, bid_of)
         IN  /\ (r.err = "InvalidBid")
                  <=> (\E p \in Players : ~BidInRange(bid_of[p], state.round_num))
             /\ r.err \in {"", "InvalidBid"}
             /\ r.err = "" => DOMAIN r.state.bids = Players
             /\ \A p \in DOMAIN r.state.bids :
                  \/ r.state.bids[p] = bid_of[p] /\ BidInRange(bid_of[p], state.round_num)
                  \/ p \in DOMAIN state.bids /\ r.state.bids[p] = state.bids[p]

\* collect_bids has just refused the second player's bid, the first
\* player's being recorded
C17_Witness ==
  /\ state # NoState
  /\ last.op = "collect_bids" /\ last.err = "InvalidBid"
  /\ DOMAIN state.bids = {1}
  /\ BidInRange(state.bids[1], state.round_num)

\* C18: a collect_bids call that fails with an invalid-bid error leaves the
\* round's bid map exactly as it was before the call.
C18_FailedBidsChangeNothing ==
  [][(CollectBids /\ last'.err = "InvalidBid") => state'.bids = state.bids]_vars

\* the call failed with `err` and changed nothing of the game
FailsWith(op, err) ==
  /\ last'.op = op
  /\ last'.err = err
  /\ state' = state
  /\ deck' = deck
  /\ cumulative_scores' = cumulative_scores

\* C19: before any start_round, collect_bids, start_trick and
\* calculate_scores fail with a no-active-round error and play_card with a
\* no-active-trick error; in a round without a current trick play_card fails
\* with a no-active-trick error; each time hands, tricks, bids, tallies and
\* scores are unchanged.
C19_CallsOutsideValidState ==
  [][/\ (state = NoState /\ CollectBids) => FailsWith("collect_bids", "NoActiveRound")
     /\ (state = NoState /\ StartTrick) => FailsWith("start_trick", "NoActiveRound")
     /\ (state = NoState /\ CalculateScores)
          => FailsWith("calculate_scores", "NoActiveRound")
     /\ \A p \in Players : \A c \in CardInputs(state) :
          (~HasCurrentTrick(state) /\ PlayCard(p, c))
          => FailsWith("play_card", "NoActiveTrick")]_vars

\* play_card has just been refused in a round whose previous trick completed
C19_Witness ==
  /\ state # NoState
  /\ state.current_trick = NoTrick
  /\ Len(state.tricks) >= 1
  /\ last.op = "play_card" /\ last.err = "NoActiveTrick"
  /\ InSeq(last.ret.card, state.hands[last.ret.player])

\* C20: no start_trick and no play_card call succeeds in a round before
\* every player has a bid recorded for that round.
C20_BidsBeforeTricks ==
  [][((StartTrick \/ \E p \in Players : \E c \in CardInputs(state) : PlayCard(p, c))
      /\ state # NoState /\ last'.err = "")
       => DOMAIN state.bids = Players]_vars

\* the archived tricks and the current trick of a round
AllTricks(st) ==
  IF st.current_trick = NoTrick THEN st.tricks ELSE Append(st.tricks, st.current_trick)

PlaysOf(t, p) == {i \in 1..Len(t.cards_played) : t.cards_played[i].player = p}

\* C21: whatever play_card calls the engine accepts, no player appears twice
\* in a trick's plays, and every player appears once in each archived trick.
C21_OnePlayPerPlayer ==
  state # NoState =>
    /\ \A k \in 1..Len(AllTricks(state)) : \A p \in Players :
         Cardinality(PlaysOf(AllTricks(state)[k], p)) <= 1
    /\ \A k \in 1..Len(state.tricks) : \A p \in Players :
         Cardinality(PlaysOf(state.tricks[k], p)) = 1

\* C27: once every player has a bid recorded in a round, no later engine
\* call in that round (start_trick, play_card, calculate_scores,
\* check_special_bonuses, collect_bids) changes a recorded bid.
C27_BidsImmutable ==
  [][(/\ state # NoState
      /\ DOMAIN state.bids = Players
      /\ budget'.starts = budget.starts)
       => state'.bids = state.bids]_vars

\* the led suit the first play of trick t calls for
LedBy(t) ==
  IF Len(t.cards_played) = 0 THEN "None"
  ELSE IF t.cards_played[1].card.card_type = "Number" THEN t.cards_played[1].card.suit
  ELSE "Special"

\* C28: the led suit of a trick is unset while the trick has no plays; the
\* first play sets it to the card's suit if the card is a Number card and to
\* Special otherwise; no later play and no winner resolution changes it.
C28_LedSuit ==
  /\ [](state # NoState =>
          \A k \in 1..Len(AllTricks(state)) :
            AllTricks(state)[k].led_suit = LedBy(AllTricks(state)[k]))
  /\ [][(/\ state # NoState /\ state' # NoState
          /\ budget'.starts = budget.starts)
         => /\ \A k \in 1..Len(state.tricks) :
                 /\ k <= Len(state'.tricks)
                 /\ state'.tricks[k].led_suit = state.tricks[k].led_suit
            /\ (HasCurrentTrick(state) /\ Len(state.current_trick.cards_played) > 0
                 /\ HasCurrentTrick(state')
                 /\ Len(state'.current_trick.cards_played) > 1)
                => state'.current_trick.led_suit = state.current_trick.led_suit]_vars

\* a trick led by a Number card and completed by a special card is archived
\* under the Number card's suit, also after the bonus pass resolved it again
C28_Witness ==
  /\ state # NoState
  /\ budget.bonuses = 1
  /\ Len(state.tricks) >= 1
  /\ state.tricks[1].cards_played[1].card.card_type = "Number"
  /\ state.tricks[1].cards_played[2].card.card_type \in SpecialTypes
  /\ state.tricks[1].led_suit = state.tricks[1].cards_played[1].card.suit

\* C29: of two Number cards, under every led suit and trump suit: with a
\* trump suit active a trump card beats every card that is not trump and is
\* never beaten by one; otherwise cards of one suit compare by strictly
\* higher value, cards of different suits are decided for the one of the led
\* suit, and when neither is of the led suit self does not beat other.
C29_NumberAgainstNumber ==
  (/\ pc = "beats" /\ probe.done
   /\ probe.a.card_type = "Number" /\ probe.b.card_type = "Number") =>
    LET a == probe.a
        b == probe.b
        active == probe.trump_suit # "None"
        a_trump == active /\ a.suit = probe.trump_suit
        b_trump == active /\ b.suit = probe.trump_suit
    IN  /\ (a_trump /\ ~b_trump) => (probe.a_beats_b /\ ~probe.b_beats_a)
        /\ (a_trump <=> b_trump) =>
             /\ a.suit = b.suit => (probe.a_beats_b <=> a.value > b.value)
             /\ (a.suit # b.suit /\ a.suit = probe.led_suit) => probe.a_beats_b
             /\ (a.suit # b.suit /\ a.suit # probe.led_suit) => ~probe.a_beats_b

\* a low trump card compared with a high card of the led suit
C29_Witness ==
  /\ pc = "beats" /\ probe.done
  /\ probe.a = NumberCard("Green", 1) /\ probe.b = NumberCard("Red", 13)
  /\ probe.led_suit = "Red" /\ probe.trump_suit = "Green"
  /\ probe.a_beats_b /\ ~probe.b_beats_a

\* C30: under every led suit, Tigress beats Escape and no other card; Skull
\* King, Mermaid and Pirate each beat Tigress; between Tigress and a Number
\* card, and between two Tigresses, neither beats the other.
C30_Tigress ==
  (pc = "beats" /\ probe.done /\ probe.a.card_type = "Tigress") =>
    LET tb == probe.b.card_type
    IN  /\ probe.a_beats_b <=> (tb = "Escape")
        /\ tb \in {"Skull King", "Mermaid", "Pirate"} => probe.b_beats_a
        /\ tb \in {"Number", "Tigress"} => (~probe.a_beats_b /\ ~probe.b_beats_a)

\* a Tigress compared with a Number card of the led suit
C30_Witness ==
  /\ pc = "beats" /\ probe.done
  /\ probe.a = SpecialCard("Tigress") /\ probe.b = NumberCard("Red", 1)
  /\ probe.led_suit = "Red" /\ probe.trump_suit = "None"
  /\ ~probe.a_beats_b /\ ~probe.b_beats_a

\* C24: deal(n) with n greater than the number of cards left fails with the
\* insufficient-cards error and leaves the deck as it was: same cards, same
\* order, same length.
C24_DealBeyondDeck ==
  [][\A n \in DealRequests(probe.cards) :
       (pc = "deck" /\ DeckDeal(n) /\ n > Len(probe.cards))
       => (~probe'.ok /\ probe'.cards = probe.cards /\ probe'.dealt = <<>>)]_vars

\* one card more than the 60 cards left has just been asked for
C24_Witness ==
  /\ pc = "deck"
  /\ Len(probe.cards) = 60
  /\ probe.n = 61
  /\ ~probe.ok

CountOf(cards, c) == Cardinality({i \in 1..Len(cards) : cards[i] = c})

\* C25: a deck nothing was dealt from, shuffled or not, holds exactly 63
\* cards: each of the 52 Number cards once, 5 Escape, 2 Mermaid, 2 Pirate,
\* 1 Skull King, 1 Tigress, and no Jolly Roger card.
C25_DeckComposition ==
  (pc = "deck" /\ probe.n = -1) =>
    /\ Len(probe.cards) = 63
    /\ \A i \in 1..4 : \A v \in 1..13 :
         CountOf(probe.cards, NumberCard(RealSuits[i], v)) = 1
    /\ CountOf(probe.cards, SpecialCard("Escape")) = 5
    /\ CountOf(probe.cards, SpecialCard("Mermaid")) = 2
    /\ CountOf(probe.cards, SpecialCard("Pirate")) = 2
    /\ CountOf(probe.cards, SpecialCard("Skull King")) = 1
    /\ CountOf(probe.cards, SpecialCard("Tigress")) = 1
    /\ \A i \in 1..Len(probe.cards) : probe.cards[i].card_type # "Jolly Roger"

\* a deck shuffled twice, in another order than it was built
C25_Witness ==
  /\ pc = "deck"
  /\ probe.n = -1
  /\ probe.shuffles = 2
  /\ probe.cards # CreateDeck
  /\ probe.cards[1].card_type \in SpecialTypes

\* C26: for every game the constructor accepts and every round number
\* 1..num_rounds, the deals of start_round never ask for more cards than the
\* deck holds: round_num x player_count <= 63.
C26_DealsNeverFail ==
  (pc = "rounds" /\ probe.done /\ probe.accepted) =>
    /\ probe.dealt_all
    /\ probe.round_num * probe.player_count <= 63

\* C22: under the driver, in every trick the players act in the order of
\* the player list, the first listed player first, each once per trick, and
\* a step of the driver records the play of at most one player.
C22_FixedTurnOrder ==
  /\ [](state # NoState =>
          \A k \in 1..Len(AllTricks(state)) :
            \A i \in 1..Len(AllTricks(state)[k].cards_played) :
              AllTricks(state)[k].cards_played[i].player = i)
  /\ [][(state # NoState /\ state' # NoState /\ current_round' = current_round)
         => CardsPlayed(state') - CardsPlayed(state) \in {0, 1}]_vars

\* the driver is idle in the second trick of a round, the first listed
\* player having played in it
C22_Witness ==
  /\ pc = "idle"
  /\ state # NoState
  /\ Len(state.tricks) = 1
  /\ Len(state.tricks[1].cards_played) = NumPlayers
  /\ HasCurrentTrick(state)
  /\ Len(state.current_trick.cards_played) = 1
  /\ state.current_trick.cards_played[1].player = 1

\* the cards `player` held when play i of trick k of the round was made:
\* the hand now and the cards the player has played from that play on
HeldAt(st, k, i, player) ==
  {st.hands[player][h] : h \in 1..Len(st.hands[player])}
  \cup UNION {{AllTricks(st)[m].cards_played[j].card :
                 j \in {x \in 1..Len(AllTricks(st)[m].cards_played) :
                          /\ AllTricks(st)[m].cards_played[x].player = player
                          /\ (m > k \/ x >= i)}} :
              m \in k..Len(AllTricks(st))}

\* no play after the first of a trick led by a real suit is off that suit
\* when its player held a Number card of that suit
NoRenege(st) ==
  \A k \in 1..Len(AllTricks(st)) :
    \A i \in 2..Len(AllTricks(st)[k].cards_played) :
      LET t == AllTricks(st)[k]
          play == t.cards_played[i]
          led == LedBy(t)
      IN  (/\ led \in {RealSuits[x] : x \in 1..4}
           /\ \E c \in HeldAt(st, k, i, play.player) :
                c.card_type = "Number" /\ c.suit = led)
          => (play.card.card_type = "Number" /\ play.card.suit = led)

FirstLegal(hand, t) ==
  hand[CHOOSE i \in LegalPositions(hand, t) : \A j \in LegalPositions(hand, t) : i <= j]

\* the driver's game as play_trick finds it when a control asks for a play:
\* next_trick and auto_play_round open a trick first when none is open
AtPlayTrick ==
  IF state # NoState /\ state.current_trick = NoTrick /\ ~IsRoundComplete(state)
  THEN [Game EXCEPT !.state = StartTrickResult(state).state]
  ELSE Game

\* play_trick, asked with `answer`, records for the next player the answer's
\* card when it is legal and the first legal card otherwise, and takes that
\* card out of that player's hand
RecordsLegalCard(g, answer) ==
  LET t == g.state.current_trick
      player == NextPlayer(t)
      hand == g.state.hands[player]
      card == IF ~answer.raise /\ IsLegal(answer.card, hand, t)
              THEN answer.card ELSE FirstLegal(hand, t)
      after == PlayTrick(g, answer).state
      recorded == IF after.current_trick = NoTrick
                  THEN after.tricks[Len(after.tricks)] ELSE after.current_trick
  IN  /\ IsLegal(card, hand, t)
      /\ recorded.cards_played = Append(t.cards_played, [player |-> player, card |-> card])
      /\ after.hands = [g.state.hands EXCEPT ![player] = RemoveFirst(@, card)]
      /\ Len(after.tricks) = Len(g.state.tricks)
                              + (IF after.current_trick = NoTrick THEN 1 ELSE 0)

C31_DealTakesPrefix ==
  [][\A n \in DealRequests(probe.cards) :
       (pc = "deck" /\ DeckDeal(n) /\ n <= Len(probe.cards))
       => (/\ probe'.ok
           /\ Len(probe'.dealt) = n
           /\ \A i \in 1..n : probe'.dealt[i] = probe.cards[i]
           /\ Len(probe'.cards) = Len(probe.cards) - n
           /\ \A i \in 1..Len(probe'.cards) : probe'.cards[i] = probe.cards[n + i])]_vars

\* a second deal of three cards from a shuffled deck: after an earlier deal
\* of two cards it returned the deck's third to fifth card
C31_Witness ==
  /\ pc = "deck"
  /\ probe.shuffles = 1
  /\ probe.n = 3 /\ probe.ok
  /\ Len(probe.cards) = 58
  /\ \E shuffled \in FreshShuffles :
       /\ probe.dealt = SubSeq(shuffled, 3, 5)
       /\ probe.cards = SubSeq(shuffled, 6, 63)

\* C32: between engine calls no trick holds more than player_count plays:
\* the current trick holds fewer than player_count plays and every archived
\* trick holds exactly player_count plays.
C32_TrickLengthBound ==
  state # NoState =>
    /\ \A k \in 1..Len(AllTricks(state)) :
         Len(AllTricks(state)[k].cards_played) <= NumPlayers
    /\ state.current_trick # NoTrick =>
         Len(state.current_trick.cards_played) < NumPlayers
    /\ \A k \in 1..Len(state.tricks) :
         Len(state.tricks[k].cards_played) = NumPlayers

\* a round with one trick archived and the next trick one play short
C32_Witness ==
  /\ state # NoState
  /\ Len(state.tricks) = 1
  /\ Len(state.tricks[1].cards_played) = NumPlayers
  /\ state.current_trick # NoTrick
  /\ Len(state.current_trick.cards_played) = NumPlayers - 1

\* C33: every trick of a round has a trick number in 1..round_num, and the
\* archived tricks are numbered 1, 2, ..., k in archive order, k <= round_num.
C33_TrickNumbering ==
  state # NoState =>
    /\ \A k \in 1..Len(AllTricks(state)) :
         AllTricks(state)[k].trick_num \in 1..state.round_num
    /\ \A k \in 1..Len(state.tricks) : state.tricks[k].trick_num = k
    /\ Len(state.tricks) <= state.round_num

\* C34: a successful play_card(player, card) takes exactly one copy of card
\* out of that player's hand, appends (player, card) to the plays of the
\* current trick, and leaves the other hands, the bids, the scores and the
\* tricks archived before unchanged; and within a round no call puts a card
\* into a hand.
C34_PlayCardFrame ==
  /\ [][\A player \in Players : \A card \in CardInputs(state) :
          (PlayCard(player, card) /\ last'.err = "")
          => /\ Len(state'.hands[player]) = Len(state.hands[player]) - 1
             /\ CountOf(state'.hands[player], card)
                  = CountOf(state.hands[player], card) - 1
             /\ \A c \in CardInputs(state) \ {card} :
                  CountOf(state'.hands[player], c) = CountOf(state.hands[player], c)
             /\ AllTricks(state')[Len(state.tricks) + 1].cards_played
                  = Append(state.current_trick.cards_played,
                           [player |-> player, card |-> card])
             /\ \A q \in Players \ {player} : state'.hands[q] = state.hands[q]
             /\ state'.bids = state.bids
             /\ state'.scores = state.scores
             /\ cumulative_scores' = cumulative_scores
             /\ SubSeq(state'.tricks, 1, Len(state.tricks)) = state.tricks]_vars
  /\ [][(state # NoState /\ state' # NoState /\ budget'.starts = budget.starts)
          => \A q \in Players : \A c \in CardInputs(state') :
               CountOf(state'.hands[q], c) <= CountOf(state.hands[q], c)]_vars

\* the holder of two Escapes has played one of them: one Escape is left
C34_Witness ==
  /\ state # NoState
  /\ last.err = ""
  /\ state.round_num = 2
  /\ state.hands[1] = <<SpecialCard("Escape")>>
  /\ Len(state.hands[2]) = 2
  /\ state.current_trick # NoTrick
  /\ state.current_trick.cards_played
       = <<[player |-> 1, card |-> SpecialCard("Escape")]>>

\* C35: in a trick whose led suit was set by its first play (no trump), the
\* player determine_winner returns is one of the players who played, and no
\* other card played in the trick, earlier or later, beats that player's
\* card under the trick's led suit.
C35_WinnerIsMaximal ==
  (pc = "winner" /\ probe.done) =>
    /\ probe.winner \in 1..Len(probe.cards)
    /\ \A j \in 1..Len(probe.cards) :
         j # probe.winner =>
           ~Beats(probe.cards[j], probe.cards[probe.winner], probe.led_suit, "None")

\* Red 2 led, a Pirate, then Red 5: the Pirate's player wins, with a beaten
\* card played before and one played after
C35_Witness ==
  /\ pc = "winner" /\ probe.done
  /\ probe.cards = <<NumberCard("Red", 2), SpecialCard("Pirate"), NumberCard("Red", 5)>>
  /\ probe.winner = 2

\* C36, as stated: of two plays where neither card beats the other, the one
\* played earlier wins: the later one is never the trick's winner.
C36_EarliestOfIncomparable ==
  (pc = "winner" /\ probe.done) =>
    \A i, j \in 1..Len(probe.cards) :
      (/\ i < j
       /\ ~Beats(probe.cards[i], probe.cards[j], probe.led_suit, "None")
       /\ ~Beats(probe.cards[j], probe.cards[i], probe.led_suit, "None"))
      => probe.winner # j

\* C36, amended: the candidate is replaced only by a later card that beats
\* it: the winner led or holds a card that beats the card led, no play before
\* the winner's holds a card equal to the winner's, and when no card of the
\* trick beats another (an all-Escape trick) the leader wins.
C36_CandidateKeptOnTies ==
  (pc = "winner" /\ probe.done) =>
    /\ probe.winner # 1 =>
         Beats(probe.cards[probe.winner], probe.cards[1], probe.led_suit, "None")
    /\ \A j \in 1..Len(probe.cards) :
         j < probe.winner => probe.cards[j] # probe.cards[probe.winner]
    /\ (\A i, j \in 1..Len(probe.cards) :
          ~Beats(probe.cards[i], probe.cards[j], probe.led_suit, "None"))
       => probe.winner = 1
    /\ (\A j \in 1..Len(probe.cards) : probe.cards[j].card_type = "Escape")
       => probe.winner = 1

\* an Escape led and two Mermaids after it: the first Mermaid played wins
C36_Witness ==
  /\ pc = "winner" /\ probe.done
  /\ probe.cards = <<SpecialCard("Escape"), SpecialCard("Mermaid"), SpecialCard("Mermaid")>>
  /\ probe.winner = 2

\* the plays of a round that is complete: round_num archived tricks of
\* player_count plays each, every hand empty, no current trick
RoundPlayedOut(st) ==
  /\ Len(st.tricks) = st.round_num
  /\ \A k \in 1..Len(st.tricks) : Len(st.tricks[k].cards_played) = NumPlayers
  /\ \A p \in Players : Len(st.hands[p]) = 0
  /\ st.current_trick = NoTrick

\* C37: under the driver every started round is played to its end whatever
\* the bots answer: while the round is incomplete each play_trick asked for
\* by next_trick or auto_play_round adds exactly one play, so the round ends
\* after round_num * player_count of them; a complete round has round_num
\* tricks of player_count plays, empty hands and no current trick; and
\* auto_play_round, once begun, returns with the round complete.
C37_RoundTermination ==
  /\ []((pc \in {"idle", "auto"} /\ state # NoState /\ ~IsRoundComplete(state)) =>
         /\ CardsPlayed(state) < state.round_num * NumPlayers
         /\ HasCurrentTrick(AtPlayTrick.state)
         /\ NextPlayer(AtPlayTrick.state.current_trick) # 0
         /\ \A answer \in BotAnswers(AtPlayTrick.state.hands[
                                        NextPlayer(AtPlayTrick.state.current_trick)]) :
              CardsPlayed(PlayTrick(AtPlayTrick, answer).state) = CardsPlayed(state) + 1)
  /\ []((state # NoState /\ IsRoundComplete(state)) => RoundPlayedOut(state))
  /\ ((pc = "auto") ~> (pc = "idle" /\ IsRoundComplete(state) /\ RoundPlayedOut(state)))

\* the loop of auto_play_round has ended in round 2: two tricks archived
C37_Witness ==
  /\ pc = "auto"
  /\ state # NoState
  /\ state.round_num = 2
  /\ IsRoundComplete(state)
  /\ RoundPlayedOut(state)

\* C38: under the driver the next_round control is enabled only when the
\* round is complete and current_round < num_rounds; a next_round below
\* num_rounds advances current_round by one and leaves a round of that
\* number with current_round cards in each hand, a bid for every player and
\* an open first trick; current_round never exceeds num_rounds; and
\* next_round changes no game state once current_round >= num_rounds.
C38_GameProgression ==
  /\ []((pc = "idle" /\ buttons.next_round) =>
         (state # NoState /\ IsRoundComplete(state) /\ current_round < NumRounds))
  /\ [][(ClickNextRound /\ current_round < NumRounds) =>
          /\ current_round' = current_round + 1
          /\ state' # NoState
          /\ state'.round_num = current_round'
          /\ \A p \in Players : Len(state'.hands[p]) = current_round'
          /\ DOMAIN state'.bids = Players
          /\ HasCurrentTrick(state')
          /\ state'.current_trick.cards_played = <<>>
          /\ state'.tricks = <<>>]_vars
  /\ [](current_round <= NumRounds)
  /\ [][(ClickNextRound /\ current_round >= NumRounds) =>
          UNCHANGED <<deck, state, cumulative_scores, current_round>>]_vars

====
